---- MODULE Spec2Model ----
(***************************************************************************)
(* Model of main.py: the three text transforms (clean_company_name,        *)
(* extract_emails, parse_address), their composition clean_data, and the   *)
(* per-row loop of upload_excel.                                           *)
(*                                                                         *)
(* A text (Python str) is a sequence of one-character strings.             *)
(* An optional text (str | None) is [some |-> BOOLEAN, v |-> text].        *)
(* The outcome of a call that may raise is a sequence of length <= 1:      *)
(* <<>> when the call raised, <<v>> when it returned v.  The same shape    *)
(* holds a Python local that may still be unbound.                         *)
(***************************************************************************)
EXTENDS Integers, Sequences, FiniteSets, TLC

VARIABLES
    \* ---- upload_excel ----
    df,            \* the rows pd.read_excel returned (column -> cell)
    columns,       \* the column labels of df
    idx,           \* number of rows df.iterrows() has handed out so far
    pc,            \* position in upload_excel (source line about to run)
    company,       \* local `company`      (unbound: <<>>)
    email_text,    \* local `email_text`
    address,       \* local `address`
    cleaned_name,  \* local `cleaned_name`
    emails,        \* local `emails`
    addr,          \* local `addr`
    exc,           \* line whose statement raised the exception in flight (0: none)
    cleaned_rows,  \* the list cleaned_rows
    trace,         \* history: for each appended row, its input position and branch
    \* ---- direct calls of the transforms (single-record path) ----
    arg,           \* the argument of the call
    ret,           \* outcome of the call
    ret2,          \* outcome of calling again on the first result
    phase          \* "idle" | "args" | "called" | "recalled"

vars == <<df, columns, idx, pc, company, email_text, address, cleaned_name,
          emails, addr, exc, cleaned_rows, trace, arg, ret, ret2, phase>>

bulk_vars == <<df, columns, idx, pc, company, email_text, address, cleaned_name,
               emails, addr, exc, cleaned_rows, trace>>

call_vars == <<arg, ret, ret2, phase>>

(***************************************************************************)
(* Python values                                                           *)
(***************************************************************************)
None == [some |-> FALSE, v |-> <<>>]

Some(t) == [some |-> TRUE, v |-> t]

Raised == <<>>

Return(v) == <<v>>

\* str.isspace() characters that str.split() and str.strip() treat as blank
Whitespace == {" ", "\t", "\n", "\r", "\f"}

LowerLetters ==
    <<"a","b","c","d","e","f","g","h","i","j","k","l","m",
      "n","o","p","q","r","s","t","u","v","w","x","y","z">>

UpperLetters ==
    <<"A","B","C","D","E","F","G","H","I","J","K","L","M",
      "N","O","P","Q","R","S","T","U","V","W","X","Y","Z">>

Digits == {"0","1","2","3","4","5","6","7","8","9"}

Letters == {LowerLetters[k] : k \in 1..26} \cup {UpperLetters[k] : k \in 1..26}

\* str.upper() on one character
UpperChar(c) ==
    IF \E k \in 1..26 : LowerLetters[k] = c
    THEN UpperLetters[CHOOSE k \in 1..26 : LowerLetters[k] = c]
    ELSE c

\* word.upper()
Upper(word) == [k \in 1..Len(word) |-> UpperChar(word[k])]

\* s.strip(): leading and trailing whitespace removed
Strip(s) ==
    LET keep == {k \in 1..Len(s) : s[k] \notin Whitespace}
    IN  IF keep = {} THEN <<>>
        ELSE SubSeq(s, CHOOSE k \in keep : \A m \in keep : k <= m,
                       CHOOSE k \in keep : \A m \in keep : k >= m)

RECURSIVE SplitWsAcc(_, _, _)
SplitWsAcc(s, cur, acc) ==
    IF s = <<>> THEN (IF cur = <<>> THEN acc ELSE Append(acc, cur))
    ELSE IF Head(s) \in Whitespace
         THEN SplitWsAcc(Tail(s), <<>>, IF cur = <<>> THEN acc ELSE Append(acc, cur))
         ELSE SplitWsAcc(Tail(s), Append(cur, Head(s)), acc)

\* s.split(): the maximal runs of non-whitespace characters
SplitWs(s) == SplitWsAcc(s, <<>>, <<>>)

RECURSIVE SplitOnAcc(_, _, _, _)
SplitOnAcc(s, sep, cur, acc) ==
    IF s = <<>> THEN Append(acc, cur)
    ELSE IF Head(s) = sep
         THEN SplitOnAcc(Tail(s), sep, <<>>, Append(acc, cur))
         ELSE SplitOnAcc(Tail(s), sep, Append(cur, Head(s)), acc)

\* s.split(sep) for a one-character separator: always at least one part
SplitOn(s, sep) == SplitOnAcc(s, sep, <<>>, <<>>)

RECURSIVE Join(_, _)
\* sep.join(items)
Join(items, sep) ==
    IF items = <<>> THEN <<>>
    ELSE IF Len(items) = 1 THEN items[1]
    ELSE items[1] \o sep \o Join(Tail(items), sep)

\* re.sub(r"[.,]", "", name)
RemovePunct(s) == SelectSeq(s, LAMBDA c : c \notin {".", ","})

\* seq[i] with a Python (0-based) index raises IndexError outside the range
HasIndex(seq, i) == i \in 0..(Len(seq) - 1)

(***************************************************************************)
(* clean_company_name                                                      *)
(***************************************************************************)
suffixes ==
    << <<"L","L","C">>,
       <<"I","N","C">>,
       <<"C","O","R","P">>,
       <<"L","T","D">>,
       <<"I","N","C","O","R","P","O","R","A","T","E","D">>,
       <<"C","O","R","P","O","R","A","T","I","O","N">>,
       <<"L","I","M","I","T","E","D">> >>

InSuffixes(w) == \E k \in 1..Len(suffixes) : suffixes[k] = w

\* faulty variant: the comparison forgets .upper()
clean_company_name_CaseSensitive(nm) ==
    LET name1 == RemovePunct(nm)
        words == SplitWs(name1)
        cleaned_words == SelectSeq(words, LAMBDA word : ~InSuffixes(word))
    IN  Strip(Join(cleaned_words, <<" ">>))

\* faulty variant: punctuation is removed after the suffix filter instead of before
clean_company_name_PunctLast(nm) ==
    LET words == SplitWs(nm)
        cleaned_words == SelectSeq(words, LAMBDA word : ~InSuffixes(Upper(word)))
    IN  Strip(RemovePunct(Join(cleaned_words, <<" ">>)))

clean_company_name(nm) ==
    LET name1 == RemovePunct(nm)
        words == SplitWs(name1)
        cleaned_words == SelectSeq(words, LAMBDA word : ~InSuffixes(Upper(word)))
    IN  Strip(Join(cleaned_words, <<" ">>))

(***************************************************************************)
(* extract_emails                                                          *)
(* re.findall(r"[a-zA-Z0-9_.+-]+@[a-zA-Z0-9-]+\.[a-zA-Z0-9-.]+", paragraph) *)
(***************************************************************************)
LocalChars == Letters \cup Digits \cup {"_", ".", "+", "-"}

DomainChars == Letters \cup Digits \cup {"-"}

TailChars == Letters \cup Digits \cup {"-", "."}

RECURSIVE RunEnd(_, _, _)
\* a greedy `[cls]*` started at position p stops at RunEnd (exclusive)
RunEnd(t, p, cls) ==
    IF p <= Len(t) /\ t[p] \in cls THEN RunEnd(t, p + 1, cls) ELSE p

\* ends (exclusive) the `\.[tail]+` part can reach when the dot is at b
TailEnd(t, b) ==
    IF b <= Len(t) /\ t[b] = "." /\ RunEnd(t, b + 1, TailChars) >= b + 2
    THEN RunEnd(t, b + 1, TailChars) ELSE 0

\* positions of "." after a domain started at d, a match can continue from
DomainDots(t, d) == {b \in (d + 1)..RunEnd(t, d, DomainChars) : TailEnd(t, b) # 0}

\* positions of "@" after a local part started at s, a match can continue from
LocalAts(t, s) ==
    {a \in (s + 1)..RunEnd(t, s, LocalChars) :
        a <= Len(t) /\ t[a] = "@" /\ DomainDots(t, a + 1) # {}}

SetMax(S) == CHOOSE x \in S : \A y \in S : x >= y

\* the regex matched at start s: each greedy quantifier keeps the longest
\* repetition that lets the rest match; 0 when no match starts at s
MatchEnd(t, s) ==
    IF LocalAts(t, s) = {} THEN 0
    ELSE LET a == SetMax(LocalAts(t, s))
             b == SetMax(DomainDots(t, a + 1))
         IN  TailEnd(t, b)

RECURSIVE FindAllFrom(_, _)
\* re.findall: leftmost match at or after pos, then resume at its end
FindAllFrom(t, pos) ==
    IF pos > Len(t) THEN <<>>
    ELSE IF MatchEnd(t, pos) = 0 THEN FindAllFrom(t, pos + 1)
    ELSE <<SubSeq(t, pos, MatchEnd(t, pos) - 1)>> \o FindAllFrom(t, MatchEnd(t, pos))

RECURSIVE DropRepeats(_, _)
DropRepeats(items, seen) ==
    IF items = <<>> THEN <<>>
    ELSE IF Head(items) \in seen THEN DropRepeats(Tail(items), seen)
    ELSE <<Head(items)>> \o DropRepeats(Tail(items), seen \cup {Head(items)})

\* faulty variant: the matches are deduplicated
extract_emails_Dedup(para) == DropRepeats(FindAllFrom(Strip(para), 1), {})

extract_emails(para) ==
    LET paragraph == Strip(para)
        matches == FindAllFrom(paragraph, 1)
    IN  matches

(***************************************************************************)
(* parse_address                                                           *)
(***************************************************************************)
AddressDict(street, city, state, zip_code) ==
    [street |-> street, city |-> city, state |-> state, zip_code |-> zip_code]

\* faulty variant: state and zip are read from the last part, not the third
parse_address_LastPart(a) ==
    LET parts == SplitOn(a, ",")
    IN  IF Len(parts) < 3 THEN Return(AddressDict(None, None, None, None))
        ELSE LET state_zip == SplitWs(Strip(parts[Len(parts)]))
             IN  Return(AddressDict(
                     Some(Strip(parts[1])), Some(Strip(parts[2])),
                     IF Len(state_zip) >= 1 THEN Some(state_zip[1]) ELSE None,
                     IF Len(state_zip) >= 2 THEN Some(state_zip[2]) ELSE None))

\* faulty variant: the short-address fallback still reports the street
parse_address_StreetKept(a) ==
    LET parts == SplitOn(a, ",")
    IN  IF Len(parts) < 3 THEN Return(AddressDict(Some(Strip(parts[1])), None, None, None))
        ELSE LET state_zip == SplitWs(Strip(parts[3]))
             IN  Return(AddressDict(
                     Some(Strip(parts[1])), Some(Strip(parts[2])),
                     IF Len(state_zip) >= 1 THEN Some(state_zip[1]) ELSE None,
                     IF Len(state_zip) >= 2 THEN Some(state_zip[2]) ELSE None))

\* parts[0], parts[1], parts[2], state_zip[0], state_zip[1] are Python indexes:
\* an index outside the list raises IndexError and the call returns nothing
parse_address(a) ==
    LET parts == SplitOn(a, ",")
    IN  IF Len(parts) < 3 THEN Return(AddressDict(None, None, None, None))
        ELSE IF ~(HasIndex(parts, 0) /\ HasIndex(parts, 1) /\ HasIndex(parts, 2))
        THEN Raised
        ELSE LET street == Strip(parts[1])
                 city == Strip(parts[2])
                 state_zip == SplitWs(Strip(parts[3]))
             IN  IF \/ (Len(state_zip) >= 1 /\ ~HasIndex(state_zip, 0))
                    \/ (Len(state_zip) >= 2 /\ ~HasIndex(state_zip, 1))
                 THEN Raised
                 ELSE Return(AddressDict(
                         Some(street), Some(city),
                         IF Len(state_zip) >= 1 THEN Some(state_zip[1]) ELSE None,
                         IF Len(state_zip) >= 2 THEN Some(state_zip[2]) ELSE None))

(***************************************************************************)
(* clean_data (POST /clean)                                                *)
(***************************************************************************)
InputData(company_name, email_paragraph, address_text) ==
    [company_name |-> company_name, email_paragraph |-> email_paragraph,
     address |-> address_text]

OutputData(name_out, emails_out, parts) ==
    [cleaned_name |-> name_out, emails |-> emails_out,
     street |-> parts.street, city |-> parts.city,
     state |-> parts.state, zip_code |-> parts.zip_code]

\* an exception of a transform propagates out of clean_data
clean_data(data) ==
    LET name_out == clean_company_name(data.company_name)
        emails_out == extract_emails(data.email_paragraph)
        address_parts == parse_address(data.address)
    IN  IF address_parts = Raised THEN Raised
        ELSE Return(OutputData(name_out, emails_out, address_parts[1]))

(***************************************************************************)
(* upload_excel: the loop over df.iterrows()                               *)
(***************************************************************************)
ColCompany == "Company Name"

ColEmail == "Email (Paragraph)"

ColAddress == "Address"

\* a cell of the sheet: pd.read_excel gives NaN for an empty cell
NaN == [nan |-> TRUE, s |-> <<>>]

Text(t) == [nan |-> FALSE, s |-> t]

\* row.get(key, default): the default only when the row has no such label
RowGet(row, key, default) == IF key \in DOMAIN row THEN row[key] ELSE default

\* str(value): str(float("nan")) is "nan"
Str(cell) == IF cell.nan THEN <<"n","a","n">> ELSE cell.s

\* faulty variant: the emails are joined with "," and no space
SuccessRow_CommaJoin(name_out, emails_out, parts) ==
    [Company_Name |-> name_out,
     Emails |-> Join(emails_out, <<",">>),
     Street |-> parts.street, City |-> parts.city,
     State |-> parts.state, Zip_Code |-> parts.zip_code]

\* the dict appended at lines 114-121
SuccessRow(name_out, emails_out, parts) ==
    [Company_Name |-> name_out,
     Emails |-> Join(emails_out, <<",", " ">>),
     Street |-> parts.street, City |-> parts.city,
     State |-> parts.state, Zip_Code |-> parts.zip_code]

\* the dict appended at lines 124-131
ErrorRow(company_value) ==
    [Company_Name |-> company_value,
     Emails |-> <<"E","R","R","O","R">>,
     Street |-> None, City |-> None, State |-> None, Zip_Code |-> None]

\* the statement at `line` raised: control goes to the except clause
Raise(line) ==
    /\ exc' = line
    /\ pc' = "except"
    /\ UNCHANGED <<df, columns, idx, company, email_text, address, cleaned_name,
                   emails, addr, cleaned_rows, trace>>

\* line 104: the iterator hands out the next row
NextRow ==
    /\ pc = "iter"
    /\ idx < Len(df)
    /\ idx' = idx + 1
    /\ pc' = "l106"
    /\ UNCHANGED <<df, columns, company, email_text, address, cleaned_name,
                   emails, addr, exc, cleaned_rows, trace>>
    /\ UNCHANGED call_vars

\* line 104 with the iterator exhausted, then lines 134-142
EndLoop ==
    /\ pc = "iter"
    /\ idx = Len(df)
    /\ pc' = "done"
    /\ UNCHANGED <<df, columns, idx, company, email_text, address, cleaned_name,
                   emails, addr, exc, cleaned_rows, trace>>
    /\ UNCHANGED call_vars

\* line 106: company = str(row.get("Company Name", ""))
Line106 ==
    /\ pc = "l106"
    /\ \E fails \in BOOLEAN :
          IF fails THEN Raise(106)
          ELSE /\ company' = <<Str(RowGet(df[idx], ColCompany, Text(<<>>)))>>
               /\ pc' = "l107"
               /\ UNCHANGED <<df, columns, idx, email_text, address, cleaned_name,
                              emails, addr, exc, cleaned_rows, trace>>
    /\ UNCHANGED call_vars

\* line 107: email_text = str(row.get("Email (Paragraph)", ""))
Line107 ==
    /\ pc = "l107"
    /\ \E fails \in BOOLEAN :
          IF fails THEN Raise(107)
          ELSE /\ email_text' = <<Str(RowGet(df[idx], ColEmail, Text(<<>>)))>>
               /\ pc' = "l108"
               /\ UNCHANGED <<df, columns, idx, company, address, cleaned_name,
                              emails, addr, exc, cleaned_rows, trace>>
    /\ UNCHANGED call_vars

\* line 108: address = str(row.get("Address", ""))
Line108 ==
    /\ pc = "l108"
    /\ \E fails \in BOOLEAN :
          IF fails THEN Raise(108)
          ELSE /\ address' = <<Str(RowGet(df[idx], ColAddress, Text(<<>>)))>>
               /\ pc' = "l110"
               /\ UNCHANGED <<df, columns, idx, company, email_text, cleaned_name,
                              emails, addr, exc, cleaned_rows, trace>>
    /\ UNCHANGED call_vars

\* line 110: cleaned_name = clean_company_name(company)
Line110 ==
    /\ pc = "l110"
    /\ \E fails \in BOOLEAN :
          IF fails THEN Raise(110)
          ELSE /\ cleaned_name' = <<clean_company_name(company[1])>>
               /\ pc' = "l111"
               /\ UNCHANGED <<df, columns, idx, company, email_text, address,
                              emails, addr, exc, cleaned_rows, trace>>
    /\ UNCHANGED call_vars

\* line 111: emails = extract_emails(email_text)
Line111 ==
    /\ pc = "l111"
    /\ \E fails \in BOOLEAN :
          IF fails THEN Raise(111)
          ELSE /\ emails' = <<extract_emails(email_text[1])>>
               /\ pc' = "l112"
               /\ UNCHANGED <<df, columns, idx, company, email_text, address,
                              cleaned_name, addr, exc, cleaned_rows, trace>>
    /\ UNCHANGED call_vars

\* line 112: addr = parse_address(address)
Line112 ==
    /\ pc = "l112"
    /\ \E fails \in BOOLEAN :
          IF fails \/ parse_address(address[1]) = Raised THEN Raise(112)
          ELSE /\ addr' = parse_address(address[1])
               /\ pc' = "l114"
               /\ UNCHANGED <<df, columns, idx, company, email_text, address,
                              cleaned_name, emails, exc, cleaned_rows, trace>>
    /\ UNCHANGED call_vars

\* lines 114-121: cleaned_rows.append({...})
Line114 ==
    /\ pc = "l114"
    /\ \E fails \in BOOLEAN :
          IF fails THEN Raise(114)
          ELSE /\ cleaned_rows' =
                     Append(cleaned_rows, SuccessRow(cleaned_name[1], emails[1], addr[1]))
               /\ trace' = Append(trace, [row |-> idx, failed |-> FALSE])
               /\ pc' = "iter"
               /\ UNCHANGED <<df, columns, idx, company, email_text, address,
                              cleaned_name, emails, addr, exc>>
    /\ UNCHANGED call_vars

\* lines 123-131: the except clause reads `company`; while it is unbound that
\* read raises UnboundLocalError inside the handler, which leaves upload_excel
Except ==
    /\ pc = "except"
    /\ IF company = <<>>
       THEN /\ pc' = "aborted"
            /\ UNCHANGED <<cleaned_rows, trace, exc>>
       ELSE /\ cleaned_rows' = Append(cleaned_rows, ErrorRow(company[1]))
            /\ trace' = Append(trace, [row |-> idx, failed |-> TRUE])
            /\ exc' = 0
            /\ pc' = "iter"
    /\ UNCHANGED <<df, columns, idx, company, email_text, address, cleaned_name,
                   emails, addr>>
    /\ UNCHANGED call_vars

(***************************************************************************)
(* Inputs: texts assembled from a few pieces                               *)
(***************************************************************************)
RECURSIVE TextsFrom(_, _)
\* every concatenation of at most n pieces
TextsFrom(pieces, n) ==
    IF n = 0 THEN {<<>>}
    ELSE LET shorter == TextsFrom(pieces, n - 1)
         IN  shorter \cup {t \o p : t \in shorter, p \in pieces}

\* upload_excel not running
BulkIdle ==
    /\ df = <<>> /\ columns = {} /\ idx = 0 /\ pc = "idle"
    /\ company = <<>> /\ email_text = <<>> /\ address = <<>>
    /\ cleaned_name = <<>> /\ emails = <<>> /\ addr = <<>>
    /\ exc = 0 /\ cleaned_rows = <<>> /\ trace = <<>>

(***************************************************************************)
(* SpecName: clean_company_name called on a name, then on its own result   *)
(***************************************************************************)
MaxNamePieces == 3

NamePieces ==
    { <<"A","c","m","e">>, <<"I","n","c",".">>, <<"L","L","C">>, <<"l","t","d">>,
      <<"I","n","c","o","r","p","o","r","a","t","i","o","n">>,
      <<" ">>, <<"\t">>, <<",">>, <<".">>, <<"L">>, <<"C">> }

InitName ==
    /\ BulkIdle
    /\ arg \in TextsFrom(NamePieces, MaxNamePieces)
    /\ ret = Raised /\ ret2 = Raised /\ phase = "args"

CallCleanCompanyName ==
    /\ phase = "args"
    /\ ret' = Return(clean_company_name(arg))
    /\ phase' = "called"
    /\ UNCHANGED <<arg, ret2>>
    /\ UNCHANGED bulk_vars

RecallCleanCompanyName ==
    /\ phase = "called"
    /\ ret2' = Return(clean_company_name(ret[1]))
    /\ phase' = "recalled"
    /\ UNCHANGED <<arg, ret>>
    /\ UNCHANGED bulk_vars

NextName == CallCleanCompanyName \/ RecallCleanCompanyName

SpecName == InitName /\ [][NextName]_vars

NonSuffixTokens(s) == SelectSeq(SplitWs(s), LAMBDA w : ~InSuffixes(Upper(w)))

\* C7: the result of clean_company_name has no token that, upper-cased, is a
\* legal suffix; its tokens are exactly the non-suffix tokens of the input
\* with '.' and ',' removed, in order; and it is those tokens joined by single
\* spaces, with no leading or trailing whitespace.
C7_CleanedNameTokens ==
    phase \in {"called", "recalled"} =>
        LET out == ret[1]
            toks == SplitWs(out)
        IN  /\ \A k \in 1..Len(toks) : ~InSuffixes(Upper(toks[k]))
            /\ toks = NonSuffixTokens(RemovePunct(arg))
            /\ out = Join(toks, <<" ">>)
            /\ \A k \in 1..Len(out) : out[k] \notin {".", ","}

\* a suffix written in mixed case with punctuation was dropped, and a token
\* that merely starts with a suffix was kept
C7_Witness ==
    /\ phase = "called"
    /\ arg # RemovePunct(arg)
    /\ \E k \in 1..Len(SplitWs(RemovePunct(arg))) :
          LET w == SplitWs(RemovePunct(arg))[k]
          IN  InSuffixes(Upper(w)) /\ ~InSuffixes(w)
    /\ \E k \in 1..Len(SplitWs(ret[1])), j \in 1..Len(suffixes) :
          LET w == SplitWs(ret[1])[k]
          IN  /\ Len(w) > Len(suffixes[j])
              /\ SubSeq(Upper(w), 1, Len(suffixes[j])) = suffixes[j]

NoPunct(s) == \A k \in 1..Len(s) : s[k] \notin {".", ","}

NoSuffixToken(s) == \A k \in 1..Len(SplitWs(s)) : ~InSuffixes(Upper(SplitWs(s)[k]))

SingleSpaced(s) == s = Join(SplitWs(s), <<" ">>)

\* C9 as stated: every name with no '.' or ',' and no suffix token is returned
\* unchanged, and cleaning a cleaned name changes nothing.
C9_UnchangedWithoutSuffixOrPunct ==
    /\ phase \in {"called", "recalled"} =>
          (NoPunct(arg) /\ NoSuffixToken(arg) => ret[1] = arg)
    /\ phase = "recalled" => ret2 = ret

\* C9 amended: a name with no '.' or ',', no suffix token, and whose tokens
\* are separated by exactly one space with no leading or trailing whitespace
\* is returned unchanged; and clean_company_name is idempotent on every name.
C9_UnchangedWhenAlreadyClean ==
    /\ phase \in {"called", "recalled"} =>
          (NoPunct(arg) /\ NoSuffixToken(arg) /\ SingleSpaced(arg) => ret[1] = arg)
    /\ phase = "recalled" => ret2 = ret

\* an already-clean name of several tokens went through both calls
C9_Witness ==
    /\ phase = "recalled"
    /\ NoPunct(arg) /\ NoSuffixToken(arg) /\ SingleSpaced(arg)
    /\ Len(SplitWs(arg)) >= 2

(***************************************************************************)
(* SpecEmail: extract_emails called on a paragraph                         *)
(***************************************************************************)
MaxParaPieces == 4

ParaPieces ==
    { <<"a","@","b",".","c">>, <<"Z","9","@","q",".","e","u">>,
      <<"a">>, <<"@">>, <<".">>, <<" ">>, <<"\n">>, <<"!">>, <<"-">> }

InitEmail ==
    /\ BulkIdle
    /\ arg \in TextsFrom(ParaPieces, MaxParaPieces)
    /\ ret = Raised /\ ret2 = Raised /\ phase = "args"

CallExtractEmails ==
    /\ phase = "args"
    /\ ret' = Return(extract_emails(arg))
    /\ phase' = "called"
    /\ UNCHANGED <<arg, ret2>>
    /\ UNCHANGED bulk_vars

NextEmail == CallExtractEmails

SpecEmail == InitEmail /\ [][NextEmail]_vars

\* w has the shape local@domain of the pattern
IsEmail(w) ==
    \E a \in 2..Len(w) :
        /\ w[a] = "@"
        /\ \E b \in (a + 2)..(Len(w) - 1) :
              /\ w[b] = "."
              /\ \A k \in 1..(a - 1) : w[k] \in LocalChars
              /\ \A k \in (a + 1)..(b - 1) : w[k] \in DomainChars
              /\ \A k \in (b + 1)..Len(w) : w[k] \in TailChars

\* some substring of t that starts at s has the shape local@domain
MatchStartsAt(t, s) ==
    \E a \in (s + 1)..Len(t) :
        /\ t[a] = "@"
        /\ \E b \in (a + 2)..(Len(t) - 1) :
              /\ t[b] = "."
              /\ \A k \in s..(a - 1) : t[k] \in LocalChars
              /\ \A k \in (a + 1)..(b - 1) : t[k] \in DomainChars
              /\ t[b + 1] \in TailChars

RECURSIVE ScanOK(_, _, _)
\* result lists, in order, one substring of shape local@domain per place a
\* left-to-right scan of t from position `from` finds one: each starts at the
\* first position, at or after the end of the one before, where a match starts
ScanOK(t, from, result) ==
    IF result = <<>> THEN \A s \in from..Len(t) : ~MatchStartsAt(t, s)
    ELSE \E s \in from..Len(t) :
            /\ \A q \in from..(s - 1) : ~MatchStartsAt(t, q)
            /\ s + Len(Head(result)) - 1 <= Len(t)
            /\ SubSeq(t, s, s + Len(Head(result)) - 1) = Head(result)
            /\ IsEmail(Head(result))
            /\ ScanOK(t, s + Len(Head(result)), Tail(result))

\* C8: extract_emails returns the non-overlapping substrings of shape
\* local@domain a left-to-right scan finds, in order of appearance, one element
\* per occurrence (no deduplication); no match or empty text gives <<>>.
C8_EmailsInOrderNoDedup ==
    phase = "called" =>
        /\ ScanOK(arg, 1, ret[1])
        /\ ((\A s \in 1..Len(arg) : ~MatchStartsAt(arg, s)) => ret[1] = <<>>)

\* the same address occurs twice and is returned twice, after another one
C8_Witness ==
    /\ phase = "called"
    /\ Len(ret[1]) >= 2
    /\ \E j, k \in 1..Len(ret[1]) : j < k /\ ret[1][j] = ret[1][k]

(***************************************************************************)
(* SpecAddr: parse_address, and clean_data, called on an address           *)
(***************************************************************************)
MaxAddrLen == 6

AddrChars == {"a", "b", " ", ","}

RECURSIVE TextsUpTo(_, _)
\* every text of at most n characters of chars
TextsUpTo(chars, n) ==
    IF n = 0 THEN {<<>>}
    ELSE LET shorter == TextsUpTo(chars, n - 1)
         IN  shorter \cup {Append(t, c) : t \in shorter, c \in chars}

CompanySamples == { <<"A","c","m","e",","," ","I","n","c",".">>, <<>> }

ParaSamples == { <<"m","a","i","l"," ","a","@","b",".","c">>, <<>> }

InitAddr ==
    /\ BulkIdle
    /\ arg \in TextsUpTo(AddrChars, MaxAddrLen)
    /\ ret = Raised /\ ret2 = Raised /\ phase = "args"

CallParseAddress ==
    /\ phase = "args"
    /\ ret' = parse_address(arg)
    /\ phase' = "parsed"
    /\ UNCHANGED <<arg, ret2>>
    /\ UNCHANGED bulk_vars

CallCleanData ==
    /\ phase = "args"
    /\ \E cn \in CompanySamples, ep \in ParaSamples :
          ret' = clean_data(InputData(cn, ep, arg))
    /\ phase' = "cleaned"
    /\ UNCHANGED <<arg, ret2>>
    /\ UNCHANGED bulk_vars

NextAddr == CallParseAddress \/ CallCleanData

SpecAddr == InitAddr /\ [][NextAddr]_vars

AllOrNone(d) ==
    \/ d.street.some /\ d.city.some /\ d.state.some /\ d.zip_code.some
    \/ ~d.street.some /\ ~d.city.some /\ ~d.state.some /\ ~d.zip_code.some

\* C5 as stated: in every result of parse_address and of clean_data the four
\* address fields are all present or all absent.
C5_AddressAllOrNone ==
    phase \in {"parsed", "cleaned"} => ret # Raised /\ AllOrNone(ret[1])

PresentInOrder(d) ==
    /\ d.street.some <=> d.city.some
    /\ d.state.some => d.city.some
    /\ d.zip_code.some => d.state.some

\* C5 amended: in every result of parse_address and of clean_data, street and
\* city are both present or both absent, state is present only if they are,
\* and zip_code is present only if state is.
C5_AddressPresentInOrder ==
    phase \in {"parsed", "cleaned"} => ret # Raised /\ PresentInOrder(ret[1])

\* clean_data returned a record with street, city and state but no zip_code
C5_Witness ==
    /\ phase = "cleaned"
    /\ ret # Raised
    /\ ret[1].street.some /\ ret[1].state.some /\ ~ret[1].zip_code.some

\* positions of the commas of t, and the text between two positions
Commas(t) == {k \in 1..Len(t) : t[k] = ","}

NthComma(t, n) == CHOOSE k \in Commas(t) : Cardinality({j \in Commas(t) : j <= k}) = n

Between(t, lo, hi) == [k \in 1..(hi - lo - 1) |-> t[lo + k]]

\* r is s without its leading and trailing whitespace
IsTrimOf(r, s) ==
    \E lead \in 0..Len(s) :
        /\ \A k \in 1..lead : s[k] \in Whitespace
        /\ lead + Len(r) <= Len(s)
        /\ \A k \in 1..Len(r) : r[k] = s[lead + k]
        /\ \A k \in (lead + Len(r) + 1)..Len(s) : s[k] \in Whitespace
        /\ (r # <<>> => r[1] \notin Whitespace /\ r[Len(r)] \notin Whitespace)

\* starts of the whitespace-delimited tokens of s, in increasing order
TokenStarts(s) ==
    {k \in 1..Len(s) : s[k] \notin Whitespace /\ (k = 1 \/ s[k - 1] \in Whitespace)}

\* o is the n-th token of s if s has n tokens, else absent
IsNthToken(o, s, n) ==
    IF Cardinality(TokenStarts(s)) < n THEN ~o.some
    ELSE LET st == CHOOSE k \in TokenStarts(s) :
                       Cardinality({j \in TokenStarts(s) : j <= k}) = n
         IN  /\ o.some
             /\ o.v # <<>>
             /\ st + Len(o.v) - 1 <= Len(s)
             /\ \A k \in 1..Len(o.v) : o.v[k] = s[st + k - 1] /\ o.v[k] \notin Whitespace
             /\ (st + Len(o.v) <= Len(s) => s[st + Len(o.v)] \in Whitespace)

\* the reference of C6, stated on the positions of the commas
AddressReference(t, d) ==
    IF Cardinality(Commas(t)) < 2
    THEN ~d.street.some /\ ~d.city.some /\ ~d.state.some /\ ~d.zip_code.some
    ELSE LET c1 == NthComma(t, 1)
             c2 == NthComma(t, 2)
             c3 == IF Cardinality(Commas(t)) >= 3 THEN NthComma(t, 3) ELSE Len(t) + 1
             third == Between(t, c2, c3)
         IN  /\ d.street.some /\ IsTrimOf(d.street.v, Between(t, 0, c1))
             /\ d.city.some /\ IsTrimOf(d.city.v, Between(t, c1, c2))
             /\ IsNthToken(d.state, third, 1)
             /\ IsNthToken(d.zip_code, third, 2)

\* texts appended to an address to vary what the result must not depend on
Extras == { <<"b">>, <<"a"," ","b">>, <<",","a">>, <<" ",","," ","b"," ","a">> }

ThirdPartTokens(t) ==
    IF Cardinality(Commas(t)) < 2 THEN 0
    ELSE Cardinality(TokenStarts(Between(t, NthComma(t, 2),
            IF Cardinality(Commas(t)) >= 3 THEN NthComma(t, 3) ELSE Len(t) + 1)))

\* C6: parse_address agrees with the reference (fewer than 3 comma parts: all
\* absent; else street, city = parts 0, 1 trimmed, state, zip_code = first and
\* second token of part 2 when it has them), and its result is the same when
\* a fourth and later parts, or a third and later tokens of part 2, are added.
C6_ParseAddressReference ==
    phase = "parsed" =>
        /\ ret # Raised
        /\ AddressReference(arg, ret[1])
        /\ Cardinality(Commas(arg)) >= 2 =>
              \A x \in Extras : parse_address(arg \o <<",">> \o x) = ret
        /\ Cardinality(Commas(arg)) = 2 /\ ThirdPartTokens(arg) >= 2 =>
              \A x \in Extras : parse_address(arg \o <<" ">> \o x) = ret

\* an address with a fourth part and three tokens in its third part was
\* parsed, and state and zip code were found
C6_Witness ==
    /\ phase = "parsed"
    /\ Cardinality(Commas(arg)) >= 3
    /\ ThirdPartTokens(arg) >= 2
    /\ ret # Raised
    /\ ret[1].zip_code.some

(***************************************************************************)
(* Spec: upload_excel run on a sheet                                       *)
(***************************************************************************)
MaxRows == 2

AllColumns == {ColCompany, ColEmail, ColAddress}

CellsOf(col) ==
    IF col = ColCompany
    THEN {NaN, Text(<<"A","c","m","e"," ","I","n","c",".">>), Text(<<"B","o","l","t">>)}
    ELSE IF col = ColEmail
    THEN {NaN, Text(<<"a","@","b",".","c"," ","o","r"," ","Z","9","@","q",".","e","u">>)}
    ELSE {NaN, Text(<<"1"," ","A",",","T",",","I","L"," ","6">>)}

RowsOver(cols) == {r \in [cols -> UNION {CellsOf(c) : c \in AllColumns}] :
                      \A c \in cols : r[c] \in CellsOf(c)}

RECURSIVE SheetsUpTo(_, _)
SheetsUpTo(cols, n) ==
    IF n = 0 THEN {<<>>}
    ELSE LET shorter == SheetsUpTo(cols, n - 1)
         IN  shorter \cup {Append(sh, r) : sh \in shorter, r \in RowsOver(cols)}

Init ==
    /\ columns \in SUBSET AllColumns
    /\ df \in SheetsUpTo(columns, MaxRows)
    /\ idx = 0 /\ pc = "iter"
    /\ company = <<>> /\ email_text = <<>> /\ address = <<>>
    /\ cleaned_name = <<>> /\ emails = <<>> /\ addr = <<>>
    /\ exc = 0 /\ cleaned_rows = <<>> /\ trace = <<>>
    /\ arg = <<>> /\ ret = <<>> /\ ret2 = <<>> /\ phase = "idle"

Next ==
    \/ NextRow \/ EndLoop
    \/ Line106 \/ Line107 \/ Line108 \/ Line110 \/ Line111 \/ Line112 \/ Line114
    \/ Except

Spec == Init /\ [][Next]_vars

\* the loop is over: upload_excel went on to write the sheet, or was left by an
\* exception
Finished == pc \in {"done", "aborted"}

\* processing of input row k raised
RowRaised(k) ==
    \/ k <= Len(trace) /\ trace[k].failed
    \/ exc # 0 /\ idx = k /\ Len(trace) < k

\* the three source texts of a row, as lines 106-108 coerce them
CoercedCompany(row) == Str(RowGet(row, ColCompany, Text(<<>>)))

CoercedEmail(row) == Str(RowGet(row, ColEmail, Text(<<>>)))

CoercedAddress(row) == Str(RowGet(row, ColAddress, Text(<<>>)))

\* the success row of an input row
TransformedRow(row) ==
    SuccessRow(clean_company_name(CoercedCompany(row)),
               extract_emails(CoercedEmail(row)),
               parse_address(CoercedAddress(row))[1])

IsErrorMarker(r) ==
    /\ r.Emails = <<"E","R","R","O","R">>
    /\ ~r.Street.some /\ ~r.City.some /\ ~r.State.some /\ ~r.Zip_Code.some

\* C1: whatever rows fail and wherever, the loop ends (never aborted) with
\* exactly one entry per input row, entry k produced from input row k.
C1_OneOutputRowPerInputRow ==
    Finished =>
        /\ pc = "done"
        /\ Len(cleaned_rows) = Len(df)
        /\ \A k \in 1..Len(cleaned_rows) : trace[k].row = k

\* C2: when row k fails, output row k is the error marker (Emails "ERROR", no
\* address field), processing goes on, and every row that did not fail has
\* the output it would have without the failure.
C2_FailedRowIsolated ==
    Finished =>
        \A k \in 1..Len(df) :
            /\ k <= Len(cleaned_rows)
            /\ IF RowRaised(k) THEN IsErrorMarker(cleaned_rows[k])
               ELSE cleaned_rows[k] = TransformedRow(df[k])

\* C3: the error-marker row of a failing row k carries the company name of
\* row k itself, never that of an earlier row.
C3_ErrorRowKeepsOwnCompany ==
    \A k \in 1..Len(cleaned_rows) :
        trace[k].failed =>
            cleaned_rows[k].Company_Name = CoercedCompany(df[trace[k].row])

IsNull(row, col) == col \notin DOMAIN row \/ row[col].nan

\* C4: an absent or null cell of each of the three source fields is coerced
\* to the empty text, so a null Company Name gives the output Company Name ""
\* and a null Address gives four absent address fields.
C4_NullCellsBecomeEmptyText ==
    /\ (pc = "l107" /\ IsNull(df[idx], ColCompany)) => company = << <<>> >>
    /\ (pc = "l108" /\ IsNull(df[idx], ColEmail)) => email_text = << <<>> >>
    /\ (pc = "l110" /\ IsNull(df[idx], ColAddress)) => address = << <<>> >>
    /\ \A k \in 1..Len(cleaned_rows) :
          ~trace[k].failed =>
              /\ IsNull(df[trace[k].row], ColCompany) =>
                    cleaned_rows[k].Company_Name = <<>>
              /\ IsNull(df[trace[k].row], ColAddress) =>
                    /\ ~cleaned_rows[k].Street.some /\ ~cleaned_rows[k].City.some
                    /\ ~cleaned_rows[k].State.some /\ ~cleaned_rows[k].Zip_Code.some

HoldsThreeTexts(row) ==
    /\ DOMAIN row = AllColumns
    /\ \A c \in AllColumns : ~row[c].nan

\* C10: the success row the loop appends for a row holding three texts is
\* clean_data's record of the same texts (Emails being its emails joined with
\* ", "), and clean_data does not raise on them.
C10_BulkRowMatchesCleanData ==
    \A k \in 1..Len(cleaned_rows) :
        (~trace[k].failed /\ HoldsThreeTexts(df[trace[k].row])) =>
            LET row == df[trace[k].row]
                out == clean_data(InputData(row[ColCompany].s, row[ColEmail].s,
                                            row[ColAddress].s))
            IN  /\ out # Raised
                /\ cleaned_rows[k].Company_Name = out[1].cleaned_name
                /\ cleaned_rows[k].Emails = Join(out[1].emails, <<",", " ">>)
                /\ cleaned_rows[k].Street = out[1].street
                /\ cleaned_rows[k].City = out[1].city
                /\ cleaned_rows[k].State = out[1].state
                /\ cleaned_rows[k].Zip_Code = out[1].zip_code

\* a row of three texts with two emails and a full address was appended
C10_Witness ==
    \E k \in 1..Len(cleaned_rows) :
        /\ ~trace[k].failed
        /\ HoldsThreeTexts(df[trace[k].row])
        /\ Len(extract_emails(df[trace[k].row][ColEmail].s)) = 2
        /\ cleaned_rows[k].Zip_Code.some
        /\ cleaned_rows[k].Company_Name # df[trace[k].row][ColCompany].s

====
